---- MODULE Spec2Model ----
(***************************************************************************)
(* Model of pyripherals' I2CController                                     *)
(* (src/python/src/pyripherals/peripherals/I2CController.py).              *)
(*                                                                         *)
(* A controller keeps a dictionary i2c = {'m_pBuf', 'm_nDataStart'} (the   *)
(* command buffer and the data-start offset) and drives an FPGA transport  *)
(* through named endpoints.  Every call of the API runs in a thread of     *)
(* control; a call is a sequence of steps whose program counter is named   *)
(* after the source line the step starts at.  The operations each call     *)
(* performs on the transport are recorded, in order, in hw.                *)
(*                                                                         *)
(* Python lists are 0-indexed, TLA+ sequences 1-indexed: m_pBuf[k] of the  *)
(* source is m_pBuf[k+1] here.                                             *)
(***************************************************************************)
EXTENDS Integers, Sequences, FiniteSets, TLC

VARIABLES
    heap,       \* dictionary objects: object id -> [m_pBuf, m_nDataStart]
    i2c,        \* self.i2c of every constructed controller: chip -> object id
    endpoints,  \* self.endpoints: endpoint name -> [bit_index_low]
    configured, \* history: the controllers on which i2c_configure has been called
    pc,         \* thread -> position in the running call
    call,       \* thread -> the running (or last) call and its arguments
    idx,        \* thread -> loop variable of the loop the call is in
    bound,      \* thread -> the range(...) of the streaming loop, fixed at loop entry
    data,       \* thread -> local list `data` of i2c_receive
    hw,         \* thread -> transport operations issued by the call, in order
    stdout,     \* thread -> lines printed by the call
    ret         \* thread -> how the call ended

vars == <<heap, i2c, endpoints, configured, pc, call, idx, bound, data, hw, stdout, ret>>

(***************************************************************************)
(* Bounds of the model and constants of the program.                       *)
(***************************************************************************)
I2C_MAX_TIMEOUT_MS == 50

MaxData == 2        \* data_length ranges over 0..MaxData
MaxRegLen == 7      \* register addresses of 0..MaxRegLen bytes
MaxPreamble == 8    \* i2c_configure is called with preamble_length in 0..MaxPreamble
MaxBuf == 6         \* i2c_transmit / i2c_receive are called directly on buffers this short

None == -1          \* Python's None where a list element is expected

(***************************************************************************)
(* Integer operators of Python used by the source.                         *)
(***************************************************************************)
RECURSIVE BitAnd(_, _)
BitAnd(a, b) ==
    IF a = 0 \/ b = 0 THEN 0
    ELSE (a % 2) * (b % 2) + 2 * BitAnd(a \div 2, b \div 2)

RECURSIVE BitOr(_, _)
BitOr(a, b) ==
    IF a = 0 THEN b
    ELSE IF b = 0 THEN a
    ELSE (IF a % 2 = 1 \/ b % 2 = 1 THEN 1 ELSE 0) + 2 * BitOr(a \div 2, b \div 2)

Shl(a, k) == a * 2^k
Shr(a, k) == a \div 2^k

\* str.lower() on the transfer modes callers pass
Lower(s) ==
    CASE s \in {"Pipe", "PIPE"} -> "pipe"
      [] s \in {"Wire", "WIRE"} -> "wire"
      [] OTHER -> s

(***************************************************************************)
(* Inputs.                                                                 *)
(***************************************************************************)
DevAddrs == {160, 83}                       \* 0xA0 (write form), 0x53 (read form)
RegByte(k) == 16 * k                        \* 0x10, 0x20, ...
RegList(n) == [k \in 1..n |-> RegByte(k)]
RegAddrs ==
    {[isNone |-> TRUE, list |-> <<>>], [isNone |-> FALSE, list |-> <<None>>]}
    \cup {[isNone |-> FALSE, list |-> RegList(n)] : n \in 0..MaxRegLen}
DataLengths == 0..MaxData
DataBytes == [k \in 1..(MaxData + 1) |-> 65 + k]   \* 0x42, 0x43, ...
DataTransfers == {"wire", "pipe"}
StartMasks == {2}
StopMasks == {4}
PreambleBytes(n) == [k \in 1..n |-> 160 + k]
\* the byte of the hardware memory at read pointer k: 0x11, 0x22, 0x33, ...
MemByte(k) == 17 * (k + 1)

EndpointNames ==
    {"MEMSTART", "MEMWRITE", "IN", "OUT", "START", "DONE", "MEMREAD", "RESET",
     "FIFO_RESET", "PIPE_OUT"}
MkEndpoints(missing, b) ==
    [e \in EndpointNames \ missing |->
        [bit_index_low |-> IF e \in {"IN", "OUT"} THEN b ELSE 0]]
EndpointChoices ==
    {MkEndpoints({}, 0), MkEndpoints({"FIFO_RESET"}, 8), MkEndpoints({"PIPE_OUT"}, 8)}

NoCall ==
    [fn |-> "none", self |-> 0, devAddr |-> 0,
     regAddr |-> [isNone |-> TRUE, list |-> <<>>],
     data_length |-> 0, data |-> <<>>, data_transfer |-> "wire",
     reset_pipe |-> TRUE, readout |-> TRUE,
     preamble_length |-> 0, starts |-> 0, stops |-> 0, preamble |-> <<>>,
     \* history kept with the call: the dictionary as i2c_configure found it, and
     \* whether a call of another thread was in progress at some time during this one
     before |-> [m_pBuf |-> <<>>, m_nDataStart |-> 0], overlapped |-> FALSE]

(***************************************************************************)
(* Transport operations as recorded in hw.                                 *)
(***************************************************************************)
Ev(op, ep, val, mask) == [op |-> op, ep |-> ep, val |-> val, mask |-> mask]
ActivateTriggerIn(ep) == Ev("ActivateTriggerIn", ep, endpoints[ep].bit_index_low, 0)
SetWireInValue(ep, value, mask) == Ev("SetWireInValue", ep, value, mask)
UpdateWireIns == Ev("UpdateWireIns", "", 0, 0)
UpdateTriggerOuts == Ev("UpdateTriggerOuts", "", 0, 0)
IsTriggered(ep, mask, answer) == Ev("IsTriggered", ep, IF answer THEN 1 ELSE 0, mask)
UpdateWireOuts == Ev("UpdateWireOuts", "", 0, 0)
GetWireOutValue(ep, answer) == Ev("GetWireOutValue", ep, answer, 0)
ReadPipeOut(ep, n) == Ev("read_pipe_out", ep, n, 0)

(***************************************************************************)
(* Construction: one controller built without an i2c argument, so that its *)
(* self.i2c is the dictionary of the default argument of __init__, used    *)
(* from one thread.                                                        *)
(***************************************************************************)
DefaultI2c == [m_pBuf |-> <<>>, m_nDataStart |-> 7]

\* threads of control of the caller; a thread whose pc is "off" issues no call
Threads == {1, 2}

Init ==
    /\ heap = [o \in {"default"} |-> DefaultI2c]
    /\ i2c = [c \in {1} |-> "default"]
    /\ endpoints \in EndpointChoices
    /\ configured = {}
    /\ pc = [t \in Threads |-> IF t = 1 THEN "idle" ELSE "off"]
    /\ call = [t \in Threads |-> NoCall]
    /\ idx = [t \in Threads |-> 0]
    /\ bound = [t \in Threads |-> 0]
    /\ data = [t \in Threads |-> <<>>]
    /\ hw = [t \in Threads |-> <<>>]
    /\ stdout = [t \in Threads |-> <<>>]
    /\ ret = [t \in Threads |-> [kind |-> "pending", value |-> <<>>]]

Chips == DOMAIN i2c
Dict(t) == heap[i2c[call[t].self]]


(***************************************************************************)
(* Helpers shared by the steps.                                            *)
(***************************************************************************)
Idle(t) == pc[t] = "idle"
InProgress(t) == pc[t] \notin {"idle", "off", "done"}

\* a call is entered: its frame is fresh
Enter(t, c, next, out) ==
    /\ Idle(t)
    /\ IF \A u \in Threads : ~ InProgress(u)
       THEN call' = [call EXCEPT ![t] = c]
       ELSE call' = [u \in Threads |->
                       IF u = t THEN [c EXCEPT !.overlapped = TRUE]
                       ELSE IF InProgress(u) THEN [call[u] EXCEPT !.overlapped = TRUE]
                       ELSE call[u]]
    /\ pc' = [pc EXCEPT ![t] = next]
    /\ idx' = [idx EXCEPT ![t] = 0]
    /\ bound' = [bound EXCEPT ![t] = 0]
    /\ data' = [data EXCEPT ![t] = <<>>]
    /\ hw' = [hw EXCEPT ![t] = <<>>]
    /\ stdout' = [stdout EXCEPT ![t] = out]
    /\ ret' = [ret EXCEPT ![t] =
                [kind |-> IF next = "done" THEN "None" ELSE "pending", value |-> <<>>]]

\* the call returns `value` (kind "None", "True", "list", "pipe") or raises (kind = exception)
Return(t, kind, value) ==
    /\ pc' = [pc EXCEPT ![t] = "done"]
    /\ ret' = [ret EXCEPT ![t] = [kind |-> kind, value |-> value]]

Emit(t, events) == hw' = [hw EXCEPT ![t] = hw[t] \o events]
SetDict(t, d) == heap' = [heap EXCEPT ![i2c[call[t].self]] = d]

(***************************************************************************)
(* i2c_configure, lines 68-84: the dictionary it leaves and what it prints *)
(***************************************************************************)
\* faulty variant: the data-start offset is left as it was
i2c_configure_KeepsDataStart(d, preamble_length, starts, stops, preamble) ==
    [d EXCEPT
        !.m_pBuf = <<preamble_length, starts, stops, 0>>
                   \o [k \in 1..preamble_length |-> preamble[k]]]

\* faulty variant: a read flag found in byte 0 is kept
i2c_configure_KeepsReadFlag(d, preamble_length, starts, stops, preamble) ==
    [d EXCEPT
        !.m_pBuf = <<IF Len(d.m_pBuf) > 0 /\ d.m_pBuf[1] >= 128
                     THEN BitOr(preamble_length, 128) ELSE preamble_length,
                     starts, stops, 0>>
                   \o [k \in 1..preamble_length |-> preamble[k]],
        !.m_nDataStart = 4 + preamble_length]

i2c_configure(d, preamble_length, starts, stops, preamble) ==
    [d EXCEPT
        !.m_pBuf = <<preamble_length, starts, stops, 0>>
                   \o [k \in 1..preamble_length |-> preamble[k]],
        !.m_nDataStart = 4 + preamble_length]

ConfigurePrints(preamble_length) ==
    IF preamble_length > 7 THEN <<"Preamble data is too long">> ELSE <<>>

Call_i2c_configure(t) ==
    \E c \in Chips, pl \in 0..MaxPreamble, starts \in StartMasks, stops \in StopMasks,
       extra \in 0..1 :
        LET preamble == PreambleBytes(pl + extra) IN
        /\ Enter(t, [NoCall EXCEPT !.fn = "i2c_configure", !.self = c,
                        !.preamble_length = pl, !.starts = starts, !.stops = stops,
                        !.preamble = preamble, !.before = heap[i2c[c]]],
                 "done", ConfigurePrints(pl))
        /\ heap' = [heap EXCEPT ![i2c[c]] = i2c_configure(heap[i2c[c]], pl, starts, stops, preamble)]
        /\ configured' = configured \cup {c}
        /\ UNCHANGED <<i2c, endpoints>>

(***************************************************************************)
(* i2c_transmit, lines 86-118.                                             *)
(***************************************************************************)
Call_i2c_transmit(t) ==
    \E c \in Chips, n \in DataLengths :
        /\ Len(heap[i2c[c]].m_pBuf) + n <= MaxBuf
        /\ Enter(t, [NoCall EXCEPT !.fn = "i2c_transmit", !.self = c,
                        !.data_length = n, !.data = DataBytes],
                 "tx89", <<>>)
        /\ UNCHANGED <<heap, i2c, endpoints, configured>>

\* lines 89-91: payload length into byte 3, payload appended
TransmitAppend(buf, payload, data_length) ==
    [buf EXCEPT ![4] = data_length] \o SubSeq(payload, 1, data_length)

Tx89(t) ==
    /\ pc[t] = "tx89"
    /\ IF Len(Dict(t).m_pBuf) < 4
       THEN /\ Return(t, "IndexError", <<>>)
            /\ UNCHANGED heap
       ELSE /\ SetDict(t, [Dict(t) EXCEPT
                   !.m_pBuf = TransmitAppend(@, call[t].data, call[t].data_length)])
            /\ pc' = [pc EXCEPT ![t] = "tx94"]
            /\ UNCHANGED ret
    /\ UNCHANGED <<i2c, endpoints, configured, call, idx, bound, data, hw, stdout>>

\* faulty variant: the payload is left out of the range
TransmitRange_PreambleOnly(d, data_length) == d.m_nDataStart

\* lines 94-96: reset the memory pointer; the range of the loop is evaluated
TransmitRange(d, data_length) == data_length + d.m_nDataStart

Tx94(t) ==
    /\ pc[t] = "tx94"
    /\ Emit(t, <<ActivateTriggerIn("MEMSTART")>>)
    /\ bound' = [bound EXCEPT ![t] = TransmitRange(Dict(t), call[t].data_length)]
    /\ idx' = [idx EXCEPT ![t] = 0]
    /\ pc' = [pc EXCEPT ![t] = "tx96"]
    /\ UNCHANGED <<heap, i2c, endpoints, configured, call, data, stdout, ret>>

\* faulty variant: the write pointer is advanced before the byte is committed
StreamByte_PulseBeforeCommit(byte) ==
    <<SetWireInValue("IN", Shl(byte, endpoints["IN"].bit_index_low),
                     Shl(255, endpoints["IN"].bit_index_low)),
      ActivateTriggerIn("MEMWRITE"),
      UpdateWireIns>>

\* lines 98-104 (and 158-164): one byte of the buffer goes to the IN register
StreamByte(byte) ==
    <<SetWireInValue("IN", Shl(byte, endpoints["IN"].bit_index_low),
                     Shl(255, endpoints["IN"].bit_index_low)),
      UpdateWireIns,
      ActivateTriggerIn("MEMWRITE")>>

\* one iteration of the streaming loop: m_pBuf[i] is read (IndexError past the end
\* of the list) and shifted (TypeError when the entry is None, line 99 / 159)
Stream(t) ==
    /\ idx[t] < bound[t]
    /\ IF idx[t] + 1 > Len(Dict(t).m_pBuf)
       THEN /\ Return(t, "IndexError", <<>>)
            /\ UNCHANGED <<hw, idx>>
       ELSE IF Dict(t).m_pBuf[idx[t] + 1] = None
       THEN /\ Return(t, "TypeError", <<>>)
            /\ UNCHANGED <<hw, idx>>
       ELSE /\ Emit(t, StreamByte(Dict(t).m_pBuf[idx[t] + 1]))
            /\ idx' = [idx EXCEPT ![t] = idx[t] + 1]
            /\ UNCHANGED <<pc, ret>>
    /\ UNCHANGED <<heap, i2c, endpoints, configured, call, bound, data, stdout>>

Tx96(t) ==
    /\ pc[t] = "tx96"
    /\ Stream(t)

\* lines 107-108: start the transaction, then enter the wait loop
StartTransaction(t, next) ==
    /\ idx[t] >= bound[t]
    /\ Emit(t, <<ActivateTriggerIn("START")>>)
    /\ idx' = [idx EXCEPT ![t] = 0]
    /\ pc' = [pc EXCEPT ![t] = next]
    /\ UNCHANGED <<heap, i2c, endpoints, configured, call, bound, data, stdout, ret>>

Tx107(t) ==
    /\ pc[t] = "tx96"
    /\ StartTransaction(t, "tx111")

\* lines 111-116: one iteration of the wait loop
\* faulty variant: one more iteration than the timeout allows
TransmitPolls_OneMore == I2C_MAX_TIMEOUT_MS + 1

TransmitPolls == I2C_MAX_TIMEOUT_MS

Poll(answer) ==
    <<UpdateTriggerOuts,
      IsTriggered("DONE", Shl(1, endpoints["DONE"].bit_index_low), answer)>>

\* one iteration of the loop of lines 111-116; `answers` is what IsTriggered may say
TransmitPoll(t, answers) ==
    /\ pc[t] = "tx111"
    /\ idx[t] < TransmitPolls
    /\ \E done \in answers :
        /\ Emit(t, Poll(done))
        /\ IF done
           THEN /\ Return(t, "True", <<>>)
                /\ UNCHANGED idx
           ELSE /\ idx' = [idx EXCEPT ![t] = idx[t] + 1]
                /\ UNCHANGED <<pc, ret>>
    /\ UNCHANGED <<heap, i2c, endpoints, configured, call, bound, data, stdout>>

Tx111(t) == TransmitPoll(t, BOOLEAN)

\* line 118: the loop ran out
Tx118(t) ==
    /\ pc[t] = "tx111"
    /\ idx[t] >= TransmitPolls
    /\ stdout' = [stdout EXCEPT ![t] = Append(stdout[t], "Timeout error in transmit")]
    /\ Return(t, "None", <<>>)
    /\ UNCHANGED <<heap, i2c, endpoints, configured, call, idx, bound, data, hw>>


(***************************************************************************)
(* i2c_receive, lines 120-198.                                             *)
(***************************************************************************)
Call_i2c_receive(t) ==
    \E c \in Chips, n \in DataLengths, mode \in DataTransfers,
       reset_pipe \in BOOLEAN, readout \in BOOLEAN :
        /\ Len(heap[i2c[c]].m_pBuf) <= MaxBuf
        /\ Enter(t, [NoCall EXCEPT !.fn = "i2c_receive", !.self = c,
                        !.data_length = n, !.data_transfer = mode,
                        !.reset_pipe = reset_pipe, !.readout = readout],
                 "rx140", <<>>)
        /\ UNCHANGED <<heap, i2c, endpoints, configured>>

\* lines 140-147: the endpoints a pipe transfer with reset_pipe needs
\* faulty variant: only FIFO_RESET is looked up
MissingPipeEndpoints_FifoOnly(eps) == "FIFO_RESET" \notin DOMAIN eps

MissingPipeEndpoints(eps) ==
    ~ ("FIFO_RESET" \in DOMAIN eps /\ "PIPE_OUT" \in DOMAIN eps)

ChecksPipeEndpoints(c) == Lower(c.data_transfer) = "pipe" /\ c.reset_pipe

Rx140(t) ==
    /\ pc[t] = "rx140"
    /\ IF ChecksPipeEndpoints(call[t])
       THEN IF MissingPipeEndpoints(endpoints)
            THEN /\ Return(t, "KeyError", <<>>)
                 /\ UNCHANGED hw
            ELSE /\ Emit(t, <<ActivateTriggerIn("FIFO_RESET")>>)
                 /\ pc' = [pc EXCEPT ![t] = "rx149"]
                 /\ UNCHANGED ret
       ELSE /\ pc' = [pc EXCEPT ![t] = "rx149"]
            /\ UNCHANGED <<hw, ret>>
    /\ UNCHANGED <<heap, i2c, endpoints, configured, call, idx, bound, data, stdout>>

\* lines 149-150: read flag into byte 0, payload length into byte 3
ReceiveHeader(buf, data_length) ==
    [buf EXCEPT ![1] = BitOr(@, 128), ![4] = data_length]

Rx149(t) ==
    /\ pc[t] = "rx149"
    /\ IF Len(Dict(t).m_pBuf) = 0
       THEN /\ Return(t, "IndexError", <<>>)
            /\ UNCHANGED heap
       ELSE IF Len(Dict(t).m_pBuf) < 4
       THEN /\ Return(t, "IndexError", <<>>)
            /\ SetDict(t, [Dict(t) EXCEPT !.m_pBuf[1] = BitOr(@, 128)])
       ELSE /\ SetDict(t, [Dict(t) EXCEPT
                   !.m_pBuf = ReceiveHeader(@, call[t].data_length)])
            /\ pc' = [pc EXCEPT ![t] = "rx153"]
            /\ UNCHANGED ret
    /\ UNCHANGED <<i2c, endpoints, configured, call, idx, bound, data, hw, stdout>>

\* faulty variant: the loop runs over the whole buffer
ReceiveRange_WholeBuffer(d) == Len(d.m_pBuf)

\* lines 153-156: reset the memory pointer; the range of the loop is evaluated
ReceiveRange(d) == d.m_nDataStart

Rx153(t) ==
    /\ pc[t] = "rx153"
    /\ Emit(t, <<ActivateTriggerIn("MEMSTART")>>)
    /\ bound' = [bound EXCEPT ![t] = ReceiveRange(Dict(t))]
    /\ idx' = [idx EXCEPT ![t] = 0]
    /\ pc' = [pc EXCEPT ![t] = "rx156"]
    /\ UNCHANGED <<heap, i2c, endpoints, configured, call, data, stdout, ret>>

Rx156(t) ==
    /\ pc[t] = "rx156"
    /\ Stream(t)

Rx167(t) ==
    /\ pc[t] = "rx156"
    /\ StartTransaction(t, "rx172")

\* lines 172-196: one iteration of the wait loop
\* faulty variant: the timeout is not divided by the 10 ms step
ReceivePolls_Undivided == I2C_MAX_TIMEOUT_MS

ReceivePolls == I2C_MAX_TIMEOUT_MS \div 10

\* FPGA.read_pipe_out(addr, data_length): the buffer of data_length bytes it
\* returns with its error code
read_pipe_out(n) == [k \in 1..n |-> MemByte(k - 1)]

\* faulty variant: the readout flag is not looked at
AfterPoll_IgnoresReadout(c, done) ==
    IF ~ done THEN "sleep"
    ELSE IF Lower(c.data_transfer) = "wire" THEN "wire"
    ELSE IF Lower(c.data_transfer) = "pipe" THEN "pipe"
    ELSE "sleep"

\* lines 175-196: what the iteration does once IsTriggered has answered
AfterPoll(c, done) ==
    IF ~ done THEN "sleep"
    ELSE IF ~ c.readout THEN "return"
    ELSE IF Lower(c.data_transfer) = "wire" THEN "wire"
    ELSE IF Lower(c.data_transfer) = "pipe" THEN "pipe"
    ELSE "sleep"

\* one iteration of the loop of lines 172-196; `answers` is what IsTriggered may say
ReceivePoll(t, answers) ==
    /\ pc[t] = "rx172"
    /\ idx[t] < ReceivePolls
    /\ \E done \in answers :
        LET polled == hw[t] \o Poll(done)
            then == AfterPoll(call[t], done) IN
        IF then = "return"
        THEN /\ hw' = [hw EXCEPT ![t] = polled]
             /\ Return(t, "None", <<>>)
             /\ UNCHANGED <<idx, data>>
        ELSE IF then = "wire"
        THEN /\ hw' = [hw EXCEPT ![t] = polled \o <<ActivateTriggerIn("MEMSTART")>>]
             /\ data' = [data EXCEPT ![t] = [k \in 1..call[t].data_length |-> None]]
             /\ idx' = [idx EXCEPT ![t] = 0]
             /\ pc' = [pc EXCEPT ![t] = "rx184"]
             /\ UNCHANGED ret
        ELSE IF then = "pipe"
        THEN IF "PIPE_OUT" \in DOMAIN endpoints
             THEN /\ hw' = [hw EXCEPT ![t] =
                        polled \o <<ReadPipeOut("PIPE_OUT", call[t].data_length)>>]
                  /\ Return(t, "pipe", read_pipe_out(call[t].data_length))
                  /\ UNCHANGED <<idx, data>>
             ELSE /\ hw' = [hw EXCEPT ![t] = polled]
                  /\ Return(t, "KeyError", <<>>)
                  /\ UNCHANGED <<idx, data>>
        ELSE /\ hw' = [hw EXCEPT ![t] = polled]
             /\ idx' = [idx EXCEPT ![t] = idx[t] + 1]
             /\ UNCHANGED <<pc, ret, data>>
    /\ UNCHANGED <<heap, i2c, endpoints, configured, call, bound, stdout>>

Rx172(t) == ReceivePoll(t, BOOLEAN)

\* the read pointer of the hardware memory: MEMSTART resets it, MEMREAD advances it
RECURSIVE ReadPointer(_)
ReadPointer(log) ==
    IF log = <<>> THEN 0
    ELSE LET e == log[Len(log)] IN
         IF e.op = "ActivateTriggerIn" /\ e.ep = "MEMSTART" THEN 0
         ELSE ReadPointer(SubSeq(log, 1, Len(log) - 1))
              + (IF e.op = "ActivateTriggerIn" /\ e.ep = "MEMREAD" THEN 1 ELSE 0)

\* the word GetWireOutValue reads: the memory byte under the read pointer in the
\* bits of the OUT endpoint; when the endpoint does not start at bit 0, the wire
\* carries other signals below and above it
OutWord(k) ==
    LET b == endpoints["OUT"].bit_index_low IN
    Shl(MemByte(k), b) + (IF b > 0 THEN 90 + Shl(3, b + 8) ELSE 0)

\* lines 185-192: one byte is read from the OUT register
\* faulty variant: the word is masked but not shifted down
ExtractByte_NoShift(data_tmp) ==
    BitAnd(data_tmp, Shl(255, endpoints["OUT"].bit_index_low))

ExtractByte(data_tmp) ==
    Shr(BitAnd(data_tmp, Shl(255, endpoints["OUT"].bit_index_low)),
        endpoints["OUT"].bit_index_low)

\* faulty variant: the last byte is not read
ReadoutRange_OneShort(c) == IF c.data_length > 0 THEN c.data_length - 1 ELSE 0

\* line 184: range(data_length)
ReadoutRange(c) == c.data_length

Rx184(t) ==
    /\ pc[t] = "rx184"
    /\ idx[t] < ReadoutRange(call[t])
    /\ LET data_tmp == OutWord(ReadPointer(hw[t])) IN
        /\ Emit(t, <<UpdateWireOuts, GetWireOutValue("OUT", data_tmp),
                     ActivateTriggerIn("MEMREAD")>>)
        /\ data' = [data EXCEPT ![t][idx[t] + 1] = ExtractByte(data_tmp)]
    /\ idx' = [idx EXCEPT ![t] = idx[t] + 1]
    /\ UNCHANGED <<heap, i2c, endpoints, configured, pc, call, bound, stdout, ret>>

\* line 193
Rx193(t) ==
    /\ pc[t] = "rx184"
    /\ idx[t] >= ReadoutRange(call[t])
    /\ Return(t, "list", data[t])
    /\ UNCHANGED <<heap, i2c, endpoints, configured, call, idx, bound, data, hw, stdout>>

\* line 198: the loop ran out
Rx198(t) ==
    /\ pc[t] = "rx172"
    /\ idx[t] >= ReceivePolls
    /\ stdout' = [stdout EXCEPT ![t] = Append(stdout[t], "Timeout Exception in Rx")]
    /\ Return(t, "None", <<>>)
    /\ UNCHANGED <<heap, i2c, endpoints, configured, call, idx, bound, data, hw>>

(***************************************************************************)
(* i2c_write_long, lines 206-217: preamble and configuration, then the     *)
(* steps of i2c_transmit.                                                  *)
(***************************************************************************)
NoRegAddr(regAddr) == regAddr.isNone \/ regAddr.list = <<None>>

\* faulty variant: the write bit of the device address is not cleared
WritePreamble_KeepsLsb(devAddr, regAddr) ==
    IF NoRegAddr(regAddr) THEN <<devAddr>> ELSE <<devAddr>> \o regAddr.list

WritePreamble(devAddr, regAddr) ==
    IF NoRegAddr(regAddr)
    THEN <<BitAnd(devAddr, 254)>>
    ELSE <<BitAnd(devAddr, 254)>> \o regAddr.list

WriteConfigure(d, devAddr, regAddr) ==
    LET preamble == WritePreamble(devAddr, regAddr) IN
    i2c_configure(d, Len(preamble), 0, Shl(1, Len(preamble)), preamble)

Call_i2c_write_long(t) ==
    \E c \in Chips, devAddr \in DevAddrs, regAddr \in RegAddrs, n \in DataLengths :
        /\ Enter(t, [NoCall EXCEPT !.fn = "i2c_write_long", !.self = c,
                        !.devAddr = devAddr, !.regAddr = regAddr,
                        !.data_length = n, !.data = DataBytes],
                 "tx89", ConfigurePrints(Len(WritePreamble(devAddr, regAddr))))
        /\ heap' = [heap EXCEPT ![i2c[c]] = WriteConfigure(heap[i2c[c]], devAddr, regAddr)]
        /\ configured' = configured \cup {c}
        /\ UNCHANGED <<i2c, endpoints>>

\* the same call with its arguments given
i2c_write_long(t, c, devAddr, regAddr, n) ==
    /\ Enter(t, [NoCall EXCEPT !.fn = "i2c_write_long", !.self = c,
                    !.devAddr = devAddr, !.regAddr = regAddr,
                    !.data_length = n, !.data = DataBytes],
             "tx89", ConfigurePrints(Len(WritePreamble(devAddr, regAddr))))
    /\ heap' = [heap EXCEPT ![i2c[c]] = WriteConfigure(heap[i2c[c]], devAddr, regAddr)]
    /\ configured' = configured \cup {c}
    /\ UNCHANGED <<i2c, endpoints>>

(***************************************************************************)
(* i2c_read_long, lines 221-259: preamble and configuration, then the      *)
(* steps of i2c_receive.                                                   *)
(***************************************************************************)
\* faulty variant: the read bit is not set in the device address
ReadPreamble_NoReadBit(devAddr, regAddr) ==
    IF NoRegAddr(regAddr)
    THEN <<devAddr>>
    ELSE <<BitAnd(devAddr, 254)>> \o regAddr.list \o <<devAddr>>

ReadPreamble(devAddr, regAddr) ==
    IF NoRegAddr(regAddr)
    THEN <<BitOr(devAddr, 1)>>
    ELSE <<BitAnd(devAddr, 254)>> \o regAddr.list \o <<BitOr(devAddr, 1)>>

\* faulty variant: the start bit is always the one of a one-byte register address
ReadStarts_OneByteAddress(regAddr) ==
    IF NoRegAddr(regAddr) THEN 0 ELSE 2

ReadStarts(regAddr) ==
    IF NoRegAddr(regAddr) THEN 0 ELSE Shl(1, Len(regAddr.list))

ReadConfigure(d, devAddr, regAddr) ==
    LET preamble == ReadPreamble(devAddr, regAddr) IN
    i2c_configure(d, Len(preamble), ReadStarts(regAddr), 0, preamble)

Call_i2c_read_long(t) ==
    \E c \in Chips, devAddr \in DevAddrs, regAddr \in RegAddrs, n \in DataLengths,
       mode \in DataTransfers, reset_pipe \in BOOLEAN, readout \in BOOLEAN :
        /\ Enter(t, [NoCall EXCEPT !.fn = "i2c_read_long", !.self = c,
                        !.devAddr = devAddr, !.regAddr = regAddr,
                        !.data_length = n, !.data_transfer = mode,
                        !.reset_pipe = reset_pipe, !.readout = readout],
                 "rx140", ConfigurePrints(Len(ReadPreamble(devAddr, regAddr))))
        /\ heap' = [heap EXCEPT ![i2c[c]] = ReadConfigure(heap[i2c[c]], devAddr, regAddr)]
        /\ configured' = configured \cup {c}
        /\ UNCHANGED <<i2c, endpoints>>

\* the same call with its arguments given
i2c_read_long(t, c, devAddr, regAddr, n, mode, reset_pipe, readout) ==
    /\ Enter(t, [NoCall EXCEPT !.fn = "i2c_read_long", !.self = c,
                    !.devAddr = devAddr, !.regAddr = regAddr,
                    !.data_length = n, !.data_transfer = mode,
                    !.reset_pipe = reset_pipe, !.readout = readout],
             "rx140", ConfigurePrints(Len(ReadPreamble(devAddr, regAddr))))
    /\ heap' = [heap EXCEPT ![i2c[c]] = ReadConfigure(heap[i2c[c]], devAddr, regAddr)]
    /\ configured' = configured \cup {c}
    /\ UNCHANGED <<i2c, endpoints>>

(***************************************************************************)
(* reset_device, lines 261-266.                                            *)
(***************************************************************************)
\* faulty variant: the endpoint is pulsed twice
ResetPulses_Twice == <<ActivateTriggerIn("RESET"), ActivateTriggerIn("RESET")>>

\* line 266: self.fpga.xem.ActivateTriggerIn(RESET.address, RESET.bit_index_low)
ResetPulses == <<ActivateTriggerIn("RESET")>>

Call_reset_device(t) ==
    \E c \in Chips :
        /\ Idle(t)
        /\ call' = [call EXCEPT ![t] = [NoCall EXCEPT !.fn = "reset_device", !.self = c]]
        /\ hw' = [hw EXCEPT ![t] = ResetPulses]
        /\ stdout' = [stdout EXCEPT ![t] = <<>>]
        /\ idx' = [idx EXCEPT ![t] = 0]
        /\ bound' = [bound EXCEPT ![t] = 0]
        /\ data' = [data EXCEPT ![t] = <<>>]
        /\ Return(t, "None", <<>>)
        /\ UNCHANGED <<heap, i2c, endpoints, configured>>

(***************************************************************************)
(* The caller has the result of the call; the frame of the call is gone.   *)
(***************************************************************************)
Returned(t) ==
    /\ pc[t] = "done"
    /\ pc' = [pc EXCEPT ![t] = "idle"]
    /\ call' = [call EXCEPT ![t] = NoCall]
    /\ idx' = [idx EXCEPT ![t] = 0]
    /\ bound' = [bound EXCEPT ![t] = 0]
    /\ data' = [data EXCEPT ![t] = <<>>]
    /\ hw' = [hw EXCEPT ![t] = <<>>]
    /\ stdout' = [stdout EXCEPT ![t] = <<>>]
    /\ ret' = [ret EXCEPT ![t] = [kind |-> "pending", value |-> <<>>]]
    /\ UNCHANGED <<heap, i2c, endpoints, configured>>

(***************************************************************************)
(* The program: calls are issued one after another on the thread.          *)
(***************************************************************************)
Next ==
    \E t \in Threads :
        \/ Returned(t)
        \/ Call_i2c_configure(t)
        \/ Call_i2c_transmit(t)
        \/ Call_i2c_receive(t)
        \/ Call_i2c_write_long(t)
        \/ Call_i2c_read_long(t)
        \/ Call_reset_device(t)
        \/ Tx89(t) \/ Tx94(t) \/ Tx96(t) \/ Tx107(t) \/ Tx111(t) \/ Tx118(t)
        \/ Rx140(t) \/ Rx149(t) \/ Rx153(t) \/ Rx156(t) \/ Rx167(t)
        \/ Rx172(t) \/ Rx184(t) \/ Rx193(t) \/ Rx198(t)

Spec == Init /\ [][Next]_vars

\* a call that has been entered keeps executing: the interpreter runs the thread,
\* and the transport operations and time.sleep return
Step(t) ==
    \/ Tx89(t) \/ Tx94(t) \/ Tx96(t) \/ Tx107(t) \/ Tx111(t) \/ Tx118(t)
    \/ Rx140(t) \/ Rx149(t) \/ Rx153(t) \/ Rx156(t) \/ Rx167(t)
    \/ Rx172(t) \/ Rx184(t) \/ Rx193(t) \/ Rx198(t)

\* the controller with the complete endpoint set
LiveInit == Init /\ endpoints = MkEndpoints({}, 0)

LiveSpec == LiveInit /\ [][Next]_vars /\ \A t \in Threads : WF_vars(Step(t))

(***************************************************************************)
(* Two controllers built by one call of create_chips, lines 28-47: each is *)
(* constructed without an i2c argument, so the self.i2c of both is the one *)
(* dictionary object of the default argument of __init__ (line 22).        *)
(***************************************************************************)
ChipsInit ==
    /\ heap = [o \in {"default"} |-> DefaultI2c]
    /\ i2c = [c \in {1, 2} |-> "default"]
    /\ endpoints = MkEndpoints({}, 0)
    /\ configured = {}
    /\ pc = [t \in Threads |-> IF t = 1 THEN "idle" ELSE "off"]
    /\ call = [t \in Threads |-> NoCall]
    /\ idx = [t \in Threads |-> 0]
    /\ bound = [t \in Threads |-> 0]
    /\ data = [t \in Threads |-> <<>>]
    /\ hw = [t \in Threads |-> <<>>]
    /\ stdout = [t \in Threads |-> <<>>]
    /\ ret = [t \in Threads |-> [kind |-> "pending", value |-> <<>>]]

\* every operation on either controller; the long calls with one register address
OneRegAddr == [isNone |-> FALSE, list |-> RegList(1)]

Chips_i2c_write_long(t) ==
    \E c \in Chips, devAddr \in DevAddrs : i2c_write_long(t, c, devAddr, OneRegAddr, 1)

Chips_i2c_read_long(t) ==
    \E c \in Chips, mode \in DataTransfers :
        i2c_read_long(t, c, 160, OneRegAddr, 1, mode, TRUE, TRUE)

ChipsNext ==
    \E t \in Threads :
        \/ Returned(t)
        \/ Call_i2c_configure(t)
        \/ Call_i2c_transmit(t)
        \/ Call_i2c_receive(t)
        \/ Chips_i2c_write_long(t)
        \/ Chips_i2c_read_long(t)
        \/ Call_reset_device(t)
        \/ Tx89(t) \/ Tx94(t) \/ Tx96(t) \/ Tx107(t) \/ Tx111(t) \/ Tx118(t)
        \/ Rx140(t) \/ Rx149(t) \/ Rx153(t) \/ Rx156(t) \/ Rx167(t)
        \/ Rx172(t) \/ Rx184(t) \/ Rx193(t) \/ Rx198(t)

ChipsSpec == ChipsInit /\ [][ChipsNext]_vars

(***************************************************************************)
(* One controller used from two threads without a lock: both threads issue *)
(* transactions (i2c_write_long, i2c_read_long) and their calls interleave.*)
(* The interpreter switches threads at calls and at the back-edges of      *)
(* loops, so a step of a thread here runs from one such point to the next  *)
(* one at which the dictionary is read or written: i2c_configure and the   *)
(* loop of lines 90-91 are several steps, and every step looks up          *)
(* self.i2c['m_pBuf'] anew, finding the list that is in the dictionary     *)
(* then.                                                                   *)
(***************************************************************************)
ConcInit ==
    /\ heap = [o \in {"default"} |-> DefaultI2c]
    /\ i2c = [c \in {1} |-> "default"]
    /\ endpoints = MkEndpoints({}, 0)
    /\ configured = {}
    /\ pc = [t \in Threads |-> "idle"]
    /\ call = [t \in Threads |-> NoCall]
    /\ idx = [t \in Threads |-> 0]
    /\ bound = [t \in Threads |-> 0]
    /\ data = [t \in Threads |-> <<>>]
    /\ hw = [t \in Threads |-> <<>>]
    /\ stdout = [t \in Threads |-> <<>>]
    /\ ret = [t \in Threads |-> [kind |-> "pending", value |-> <<>>]]

\* lines 206-216: the preamble is built and i2c_configure is called with it
Conc_i2c_write_long(t) ==
    \E devAddr \in DevAddrs :
        LET preamble == WritePreamble(devAddr, OneRegAddr) IN
        /\ Enter(t, [NoCall EXCEPT !.fn = "i2c_write_long", !.self = 1,
                        !.devAddr = devAddr, !.regAddr = OneRegAddr,
                        !.data_length = 1, !.data = DataBytes,
                        !.preamble_length = Len(preamble), !.starts = 0,
                        !.stops = Shl(1, Len(preamble)), !.preamble = preamble],
                 "cfg75", <<>>)
        /\ configured' = configured \cup {1}
        /\ UNCHANGED <<heap, i2c, endpoints>>

\* lines 221-254: the preamble is built and i2c_configure is called with it
Conc_i2c_read_long(t) ==
    LET preamble == ReadPreamble(160, OneRegAddr) IN
    /\ Enter(t, [NoCall EXCEPT !.fn = "i2c_read_long", !.self = 1,
                    !.devAddr = 160, !.regAddr = OneRegAddr,
                    !.data_length = 1, !.data_transfer = "wire",
                    !.reset_pipe = TRUE, !.readout = FALSE,
                    !.preamble_length = Len(preamble), !.starts = ReadStarts(OneRegAddr),
                    !.stops = 0, !.preamble = preamble],
             "cfg75", <<>>)
    /\ configured' = configured \cup {1}
    /\ UNCHANGED <<heap, i2c, endpoints>>

\* lines 75-80: the list i2c_configure puts in the dictionary, before its loop
ConfigureHeader(preamble_length, starts, stops) ==
    <<preamble_length, starts, stops, 0>> \o [k \in 1..preamble_length |-> None]

\* lines 71-81: the new list is in the dictionary and range() has been called
Conc_Cfg75(t) ==
    /\ pc[t] = "cfg75"
    /\ stdout' = [stdout EXCEPT ![t] = stdout[t] \o ConfigurePrints(call[t].preamble_length)]
    /\ SetDict(t, [Dict(t) EXCEPT
            !.m_pBuf = ConfigureHeader(call[t].preamble_length, call[t].starts,
                                       call[t].stops)])
    /\ idx' = [idx EXCEPT ![t] = 0]
    /\ bound' = [bound EXCEPT ![t] = call[t].preamble_length]
    /\ pc' = [pc EXCEPT ![t] = IF call[t].preamble_length = 0 THEN "cfg84" ELSE "cfg82"]
    /\ UNCHANGED <<i2c, endpoints, configured, call, data, hw, ret>>

\* line 82: one iteration of the loop, on the list the dictionary holds now
Conc_Cfg82(t) ==
    /\ pc[t] = "cfg82"
    /\ IF 4 + idx[t] + 1 > Len(Dict(t).m_pBuf)
       THEN /\ Return(t, "IndexError", <<>>)
            /\ UNCHANGED <<heap, idx>>
       ELSE /\ SetDict(t, [Dict(t) EXCEPT
                   !.m_pBuf[4 + idx[t] + 1] = call[t].preamble[idx[t] + 1]])
            /\ idx' = [idx EXCEPT ![t] = idx[t] + 1]
            /\ pc' = [pc EXCEPT ![t] = IF idx[t] + 1 < bound[t] THEN "cfg82" ELSE "cfg84"]
            /\ UNCHANGED ret
    /\ UNCHANGED <<i2c, endpoints, configured, call, bound, data, hw, stdout>>

\* lines 217 and 259: what the transaction calls when i2c_configure has returned
AfterConfigure(c) == IF c.fn = "i2c_write_long" THEN "tx89" ELSE "rx140"

\* line 84, and the return to the caller
Conc_Cfg84(t) ==
    /\ pc[t] = "cfg84"
    /\ SetDict(t, [Dict(t) EXCEPT !.m_nDataStart = 4 + call[t].preamble_length])
    /\ idx' = [idx EXCEPT ![t] = 0]
    /\ bound' = [bound EXCEPT ![t] = 0]
    /\ pc' = [pc EXCEPT ![t] = AfterConfigure(call[t])]
    /\ UNCHANGED <<i2c, endpoints, configured, call, data, hw, stdout, ret>>

\* lines 89-90: payload length into byte 3, and range() has been called
Conc_Tx89(t) ==
    /\ pc[t] = "tx89"
    /\ IF Len(Dict(t).m_pBuf) < 4
       THEN /\ Return(t, "IndexError", <<>>)
            /\ UNCHANGED <<heap, idx, bound>>
       ELSE /\ SetDict(t, [Dict(t) EXCEPT !.m_pBuf[4] = call[t].data_length])
            /\ idx' = [idx EXCEPT ![t] = 0]
            /\ bound' = [bound EXCEPT ![t] = call[t].data_length]
            /\ pc' = [pc EXCEPT ![t] = IF call[t].data_length = 0 THEN "tx94" ELSE "tx91"]
            /\ UNCHANGED ret
    /\ UNCHANGED <<i2c, endpoints, configured, call, data, hw, stdout>>

\* line 91: one iteration of the loop, appending to the list the dictionary holds now
Conc_Tx91(t) ==
    /\ pc[t] = "tx91"
    /\ SetDict(t, [Dict(t) EXCEPT !.m_pBuf = Append(@, call[t].data[idx[t] + 1])])
    /\ idx' = [idx EXCEPT ![t] = idx[t] + 1]
    /\ pc' = [pc EXCEPT ![t] = IF idx[t] + 1 < bound[t] THEN "tx91" ELSE "tx94"]
    /\ UNCHANGED <<i2c, endpoints, configured, call, bound, data, hw, stdout, ret>>

\* the device answers DONE at the first poll
Conc_Tx111(t) == TransmitPoll(t, {TRUE})
Conc_Rx172(t) == ReceivePoll(t, {TRUE})

ConcNext ==
    \E t \in Threads :
        \/ Returned(t)
        \/ Conc_i2c_write_long(t)
        \/ Conc_i2c_read_long(t)
        \/ Conc_Cfg75(t) \/ Conc_Cfg82(t) \/ Conc_Cfg84(t)
        \/ Conc_Tx89(t) \/ Conc_Tx91(t)
        \/ Tx94(t) \/ Tx96(t) \/ Tx107(t) \/ Conc_Tx111(t)
        \/ Rx140(t) \/ Rx149(t) \/ Rx153(t) \/ Rx156(t) \/ Rx167(t)
        \/ Conc_Rx172(t)

ConcSpec == ConcInit /\ [][ConcNext]_vars


(***************************************************************************)
(* What a call has done, read off its record of transport operations.      *)
(***************************************************************************)
IsWireIn(e) == e.op = "SetWireInValue"
IsStart(e) == e.op = "ActivateTriggerIn" /\ e.ep = "START"
IsPoll(e) == e.op = "IsTriggered"
IsDoneSeen(e) == e.op = "IsTriggered" /\ e.val = 1

Count(log, Test(_)) == Len(SelectSeq(log, Test))

\* the values written to the IN register, in order, as the bytes they carry
StreamedBytes(log) ==
    LET w == SelectSeq(log, IsWireIn) IN
    [k \in 1..Len(w) |-> w[k].val \div 2^endpoints["IN"].bit_index_low]

Running(t) == pc[t] \notin {"idle", "off"}

ClearLsb(b) == b - (b % 2)
SetLsb(b) == b + 1 - (b % 2)
Pow2(n) == IF n = 0 THEN 1 ELSE 2^n

(***************************************************************************)
(* C1: for preamble_length in 0..7, after i2c_configure the command buffer *)
(* is [preamble_length, starts, stops, 0] followed by the first            *)
(* preamble_length bytes of the preamble, it has 4 + preamble_length       *)
(* entries, and the data-start offset is 4 + preamble_length, whatever the *)
(* buffer held before.                                                     *)
(***************************************************************************)
C1_ConfigureLayout ==
    \A t \in Threads :
        (pc[t] = "done" /\ call[t].fn = "i2c_configure" /\ call[t].preamble_length <= 7)
        => LET c == call[t] IN
           /\ Len(Dict(t).m_pBuf) = 4 + c.preamble_length
           /\ Dict(t).m_pBuf = <<c.preamble_length, c.starts, c.stops, 0>>
                               \o SubSeq(c.preamble, 1, c.preamble_length)
           /\ Dict(t).m_nDataStart = 4 + c.preamble_length

C1_Witness ==
    /\ pc[1] = "done" /\ call[1].fn = "i2c_configure"
    /\ call[1].preamble_length = 7 /\ Len(call[1].preamble) = 8
    /\ Dict(1).m_pBuf = <<7, 2, 4, 0, 161, 162, 163, 164, 165, 166, 167>>
    /\ Dict(1).m_nDataStart = 11

(***************************************************************************)
(* C2: a configuration with a preamble longer than 7 bytes fails with a    *)
(* PreambleTooLong error and the transaction does not proceed: the buffer  *)
(* is not set to 4 + preamble_length entries and no START is pulsed.       *)
(* Covers i2c_configure(8, ...), i2c_write_long with 7 register-address    *)
(* bytes and i2c_read_long with 6.                                         *)
(***************************************************************************)
PreambleLengthOf(c) ==
    CASE c.fn = "i2c_configure" -> c.preamble_length
      [] c.fn = "i2c_write_long" ->
            (IF c.regAddr.isNone \/ c.regAddr.list = <<None>> THEN 1
             ELSE 1 + Len(c.regAddr.list))
      [] c.fn = "i2c_read_long" ->
            (IF c.regAddr.isNone \/ c.regAddr.list = <<None>> THEN 1
             ELSE 2 + Len(c.regAddr.list))
      [] OTHER -> 0

C2_PreambleTooLongFails ==
    \A t \in Threads :
        (Running(t) /\ PreambleLengthOf(call[t]) > 7)
        => /\ Len(Dict(t).m_pBuf) # 4 + PreambleLengthOf(call[t])
           /\ Count(hw[t], IsStart) = 0
           /\ pc[t] = "done" => ret[t].kind = "PreambleTooLong"

(***************************************************************************)
(* C3: i2c_write_long configures preamble [devAddr & 0xfe] + regAddr (only *)
(* [devAddr & 0xfe] for regAddr None or [None]), start mask 0 and stop     *)
(* mask 1 << len(preamble); the bytes streamed to the IN register are      *)
(* [len(preamble), 0, 1 << len(preamble), n], the preamble, data[0..n-1].  *)
(***************************************************************************)
C3_ExpectedPreamble(c) ==
    IF c.regAddr.isNone \/ c.regAddr.list = <<None>>
    THEN <<ClearLsb(c.devAddr)>>
    ELSE <<ClearLsb(c.devAddr)>> \o c.regAddr.list

C3_ExpectedBuffer(c) ==
    LET pre == C3_ExpectedPreamble(c) IN
    <<Len(pre), 0, Pow2(Len(pre)), c.data_length>> \o pre
        \o SubSeq(c.data, 1, c.data_length)

C3_WriteLongStream ==
    \A t \in Threads :
        (call[t].fn = "i2c_write_long" /\ Running(t))
        => /\ Dict(t).m_nDataStart = 4 + Len(C3_ExpectedPreamble(call[t]))
           /\ pc[t] = "tx89" =>
                Dict(t).m_pBuf = [C3_ExpectedBuffer([call[t] EXCEPT !.data_length = 0])
                                    EXCEPT ![4] = 0]
           /\ pc[t] # "tx89" => Dict(t).m_pBuf = C3_ExpectedBuffer(call[t])
           /\ pc[t] \in {"tx111", "done"} =>
                StreamedBytes(hw[t]) = C3_ExpectedBuffer(call[t])

C3_Witness ==
    /\ pc[1] = "done" /\ call[1].fn = "i2c_write_long" /\ ret[1].kind = "True"
    /\ call[1].devAddr = 160 /\ call[1].regAddr.list = <<16>> /\ call[1].data_length = 1
    /\ StreamedBytes(hw[1]) = <<2, 0, 4, 1, 160, 16, 66>>

(***************************************************************************)
(* C4: i2c_read_long in wire mode with a non-empty register address        *)
(* configures preamble [devAddr & 0xfe] + regAddr + [devAddr | 0x01],      *)
(* start mask 1 << len(regAddr), stop mask 0; when DONE is observed and    *)
(* the OUT endpoint presents v[0..n-1] on successive reads, the call       *)
(* returns [v[0], ..., v[n-1]].                                            *)
(***************************************************************************)
C4_Applies(c) ==
    /\ c.fn = "i2c_read_long" /\ c.data_transfer = "wire"
    /\ ~ c.regAddr.isNone /\ c.regAddr.list # <<None>> /\ Len(c.regAddr.list) >= 1

C4_ExpectedPreamble(c) ==
    <<ClearLsb(c.devAddr)>> \o c.regAddr.list \o <<SetLsb(c.devAddr)>>

C4_ReadLongWire ==
    \A t \in Threads :
        (C4_Applies(call[t]) /\ Running(t))
        => LET c == call[t]
               pre == C4_ExpectedPreamble(c)
               buf == Dict(t).m_pBuf IN
           /\ Dict(t).m_nDataStart = 4 + Len(pre)
           /\ Len(buf) = 4 + Len(pre)
           /\ buf[1] % 128 = Len(pre)
           /\ buf[2] = Pow2(Len(c.regAddr.list))
           /\ buf[3] = 0
           /\ SubSeq(buf, 5, Len(buf)) = pre
           /\ pc[t] \in {"rx140", "rx149"} => (buf[1] = Len(pre) /\ buf[4] = 0)
           /\ (pc[t] = "done" /\ c.readout /\ Count(hw[t], IsDoneSeen) > 0)
                => /\ ret[t].kind = "list"
                   /\ ret[t].value = [k \in 1..c.data_length |-> MemByte(k - 1)]

C4_Witness ==
    /\ pc[1] = "done" /\ C4_Applies(call[1]) /\ call[1].readout
    /\ call[1].devAddr = 160 /\ call[1].regAddr.list = <<16>> /\ call[1].data_length = 2
    /\ Dict(1).m_pBuf = <<131, 2, 0, 2, 160, 16, 161>>
    /\ endpoints["OUT"].bit_index_low = 0
    /\ ret[1] = [kind |-> "list", value |-> <<17, 34>>]

(***************************************************************************)
(* C5: i2c_read_long with no register address (None or [None]) configures  *)
(* the single-byte preamble [devAddr | 0x01] with start mask 0 and stop    *)
(* mask 0, for every devAddr.                                              *)
(***************************************************************************)
C5_Applies(c) ==
    c.fn = "i2c_read_long" /\ (c.regAddr.isNone \/ c.regAddr.list = <<None>>)

C5_ReadLongNoRegAddr ==
    \A t \in Threads :
        (C5_Applies(call[t]) /\ Running(t))
        => LET buf == Dict(t).m_pBuf IN
           /\ Dict(t).m_nDataStart = 5
           /\ Len(buf) = 5
           /\ buf[1] % 128 = 1
           /\ buf[2] = 0
           /\ buf[3] = 0
           /\ buf[5] = SetLsb(call[t].devAddr)
           /\ pc[t] \in {"rx140", "rx149"} => (buf[1] = 1 /\ buf[4] = 0)

C5_Witness ==
    /\ pc[1] = "rx140" /\ call[1].fn = "i2c_read_long" /\ call[1].regAddr.isNone
    /\ call[1].devAddr = 160 /\ call[1].data_length = 1
    /\ Dict(1).m_pBuf = <<1, 0, 0, 0, 161>>


(***************************************************************************)
(* More of what a call has done.                                           *)
(***************************************************************************)
IsOutRead(e) == e.op = "GetWireOutValue" \/ e.op = "UpdateWireOuts"
IsMemRead(e) == e.op = "ActivateTriggerIn" /\ e.ep = "MEMREAD"
IsPipeRead(e) == e.op = "read_pipe_out"

IsTransmit(c) == c.fn \in {"i2c_transmit", "i2c_write_long"}
IsReceive(c) == c.fn \in {"i2c_receive", "i2c_read_long"}
Raised(t) == ret[t].kind \in {"IndexError", "KeyError", "TypeError"}
TimeoutReported(t) ==
    /\ ret[t] = [kind |-> "None", value |-> <<>>]
    /\ stdout[t] # <<>>
    /\ stdout[t][Len(stdout[t])] \in {"Timeout error in transmit", "Timeout Exception in Rx"}

(***************************************************************************)
(* C6: i2c_transmit returns True as soon as a poll observes DONE; if DONE  *)
(* is never observed it reports a timeout after exactly 50 polls, never    *)
(* polls a 51st time and never returns True; and the call always           *)
(* terminates, whatever the hardware answers.                              *)
(***************************************************************************)
C6_TransmitPollsInv ==
    \A t \in Threads :
        (IsTransmit(call[t]) /\ Running(t))
        => LET polls == Count(hw[t], IsPoll)
               seen == Count(hw[t], IsDoneSeen) IN
           /\ polls <= 50
           /\ seen <= 1
           /\ seen = 1 <=> (pc[t] = "done" /\ ret[t].kind = "True")
           /\ seen = 1 => IsDoneSeen(hw[t][Len(hw[t])])
           /\ (pc[t] = "done" /\ seen = 0 /\ ~ Raised(t))
                => /\ polls = 50
                   /\ TimeoutReported(t)
                   /\ stdout[t][Len(stdout[t])] = "Timeout error in transmit"
           /\ (pc[t] # "done" /\ polls = 50) => pc[t] = "tx111"

\* C6 in full: the bounds on the polls always hold, and every i2c_transmit that
\* has been entered reaches its end
C6_TransmitPolls ==
    /\ []C6_TransmitPollsInv
    /\ \A t \in Threads :
        (IsTransmit(call[t]) /\ Running(t)) ~> (pc[t] = "done")

C6_Witness ==
    /\ pc[1] = "done" /\ call[1].fn = "i2c_transmit"
    /\ Count(hw[1], IsPoll) = 50 /\ Count(hw[1], IsDoneSeen) = 0
    /\ Count(hw[1], IsStart) = 1
    /\ stdout[1] = <<"Timeout error in transmit">>

(***************************************************************************)
(* C7: if DONE is never observed, i2c_receive reports a timeout after      *)
(* exactly 5 polls, returns no partial data, and performs no read of the   *)
(* OUT register and no bulk pipe read.                                     *)
(***************************************************************************)
C7_ReceiveTimeout ==
    \A t \in Threads :
        (IsReceive(call[t]) /\ Running(t) /\ Count(hw[t], IsDoneSeen) = 0)
        => /\ Count(hw[t], IsPoll) <= 5
           /\ Count(hw[t], IsOutRead) = 0
           /\ Count(hw[t], IsMemRead) = 0
           /\ Count(hw[t], IsPipeRead) = 0
           /\ data[t] = <<>>
           /\ (pc[t] = "done" /\ ~ Raised(t))
                => /\ Count(hw[t], IsPoll) = 5
                   /\ TimeoutReported(t)
                   /\ stdout[t][Len(stdout[t])] = "Timeout Exception in Rx"
           /\ (pc[t] # "done" /\ Count(hw[t], IsPoll) = 5) => pc[t] = "rx172"

C7_Witness ==
    /\ pc[1] = "done" /\ call[1].fn = "i2c_receive" /\ call[1].readout
    /\ call[1].data_length = 2
    /\ Count(hw[1], IsStart) = 1 /\ Count(hw[1], IsPoll) = 5
    /\ Count(hw[1], IsDoneSeen) = 0
    /\ ret[1].kind = "None"


(***************************************************************************)
(* C8: every i2c_receive call returns a complete byte sequence of exactly  *)
(* data_length bytes or reports a timeout/error, never a shorter sequence; *)
(* in wire mode on DONE the i-th element of the result is the i-th read of *)
(* the OUT register masked with 0xff << bit_index_low and shifted right by *)
(* bit_index_low, each read followed by one MEMREAD pulse, after one       *)
(* MEMSTART pulse.                                                         *)
(***************************************************************************)
CompleteData(t) ==
    ret[t].kind \in {"list", "pipe"} /\ Len(ret[t].value) = call[t].data_length

TimeoutOrError(t) == Raised(t) \/ TimeoutReported(t)

\* the operations of the call after the poll that observed DONE
AfterDone(log) ==
    LET p == CHOOSE i \in 1..Len(log) : IsDoneSeen(log[i]) IN
    SubSeq(log, p + 1, Len(log))

WireReadout(t) ==
    LET tail == AfterDone(hw[t])
        n == call[t].data_length
        b == endpoints["OUT"].bit_index_low IN
    /\ Len(tail) = 1 + 3 * n
    /\ tail[1].op = "ActivateTriggerIn" /\ tail[1].ep = "MEMSTART"
    /\ Len(ret[t].value) = n
    /\ \A k \in 1..n :
        /\ tail[3 * k - 1].op = "UpdateWireOuts"
        /\ tail[3 * k].op = "GetWireOutValue" /\ tail[3 * k].ep = "OUT"
        /\ tail[3 * k + 1].op = "ActivateTriggerIn" /\ tail[3 * k + 1].ep = "MEMREAD"
        /\ ret[t].value[k] = (tail[3 * k].val \div 2^b) % 256

\* the claim as stated, for every call
C8_TwoOutcomes ==
    \A t \in Threads :
        (IsReceive(call[t]) /\ pc[t] = "done")
        => /\ CompleteData(t) \/ TimeoutOrError(t)
           /\ ~ (CompleteData(t) /\ TimeoutOrError(t))
           /\ ret[t].kind = "list" => WireReadout(t)

\* C8 as amended: the same, for the calls with readout=True (with readout=False
\* a call that observes DONE returns nothing and reports nothing)
C8_TwoOutcomesOnReadout ==
    \A t \in Threads :
        (IsReceive(call[t]) /\ pc[t] = "done" /\ call[t].readout)
        => /\ CompleteData(t) \/ TimeoutOrError(t)
           /\ ~ (CompleteData(t) /\ TimeoutOrError(t))
           /\ ret[t].kind = "list" => WireReadout(t)
           /\ (Count(hw[t], IsDoneSeen) > 0 /\ call[t].data_transfer = "wire")
                => ret[t].kind = "list"

C8_Witness ==
    /\ pc[1] = "done" /\ call[1].fn = "i2c_receive" /\ call[1].readout
    /\ call[1].data_transfer = "wire" /\ call[1].data_length = 2
    /\ endpoints["OUT"].bit_index_low = 8
    /\ Count(hw[1], IsMemRead) = 2
    /\ ret[1] = [kind |-> "list", value |-> <<17, 34>>]

(***************************************************************************)
(* C9: i2c_receive and i2c_read_long with readout=False still stream the   *)
(* preamble, pulse START and poll DONE up to the full budget, but return   *)
(* no data and read neither the OUT register nor the pipe and pulse no     *)
(* MEMREAD, whether DONE is observed or not.                               *)
(***************************************************************************)
C9_NoReadout ==
    \A t \in Threads :
        (IsReceive(call[t]) /\ Running(t) /\ ~ call[t].readout)
        => /\ Count(hw[t], IsOutRead) = 0
           /\ Count(hw[t], IsMemRead) = 0
           /\ Count(hw[t], IsPipeRead) = 0
           /\ data[t] = <<>>
           /\ ret[t].value = <<>>
           /\ (pc[t] = "done" /\ ~ Raised(t))
                => /\ ret[t].kind = "None"
                   /\ Count(hw[t], IsStart) = 1
                   /\ StreamedBytes(hw[t])
                        = SubSeq(Dict(t).m_pBuf, 1, Dict(t).m_nDataStart)
                   /\ Len(StreamedBytes(hw[t])) = Dict(t).m_nDataStart
                   /\ Count(hw[t], IsPoll) \in 1..5
                   /\ Count(hw[t], IsDoneSeen) = 0 => Count(hw[t], IsPoll) = 5
                   /\ Count(hw[t], IsDoneSeen) > 0 => IsDoneSeen(hw[t][Len(hw[t])])

C9_Witness ==
    /\ pc[1] = "done" /\ call[1].fn = "i2c_read_long" /\ ~ call[1].readout
    /\ call[1].data_length = 2 /\ call[1].data_transfer = "pipe"
    /\ Count(hw[1], IsDoneSeen) = 1 /\ Count(hw[1], IsPoll) = 3
    /\ Count(hw[1], IsStart) = 1
    /\ ret[1].kind = "None"

(***************************************************************************)
(* C10: i2c_receive in pipe mode on a controller whose endpoints lack      *)
(* FIFO_RESET or PIPE_OUT reports a MissingEndpoint error before any       *)
(* hardware I/O: no trigger pulse, no write of the IN register and no poll *)
(* of DONE happens in the call.                                            *)
(***************************************************************************)
C10_Applies(t) ==
    /\ IsReceive(call[t]) /\ Running(t)
    /\ call[t].data_transfer \in {"pipe", "Pipe", "PIPE"}
    /\ ("FIFO_RESET" \notin DOMAIN endpoints \/ "PIPE_OUT" \notin DOMAIN endpoints)

C10_FailsBeforeIo(t) ==
    /\ hw[t] = <<>>
    /\ pc[t] = "done" => ret[t].kind = "KeyError"

\* the claim as stated, for either value of reset_pipe
C10_MissingEndpoint ==
    \A t \in Threads : C10_Applies(t) => C10_FailsBeforeIo(t)

\* C10 as amended: for reset_pipe=True
C10_MissingEndpointOnReset ==
    \A t \in Threads :
        (C10_Applies(t) /\ call[t].reset_pipe)
        => (C10_FailsBeforeIo(t) /\ pc[t] \in {"rx140", "done"})

C10_Witness ==
    /\ pc[1] = "done" /\ call[1].fn = "i2c_receive"
    /\ call[1].data_transfer = "pipe" /\ call[1].reset_pipe
    /\ "PIPE_OUT" \notin DOMAIN endpoints
    /\ Len(Dict(1).m_pBuf) >= 4
    /\ ret[1].kind = "KeyError" /\ hw[1] = <<>>

\* thread t takes a step of its call
Acts(t) == pc'[t] # pc[t] \/ idx'[t] # idx[t] \/ hw'[t] # hw[t]

(***************************************************************************)
(* C11: every controller owns its command buffer: a step of a call on one  *)
(* controller leaves the command buffer and the data-start offset of every *)
(* other controller as they were.                                          *)
(***************************************************************************)
C11_OwnBuffer ==
    [][\A t \in Threads, b \in Chips :
        (Acts(t) /\ call'[t].self \notin {0, b}) => heap'[i2c[b]] = heap[i2c[b]]]_vars

(***************************************************************************)
(* C12: the command buffer and the data-start offset that i2c_configure    *)
(* leaves are a function of its arguments alone: whatever the dictionary   *)
(* held at entry (appended payload, read flag in byte 0, payload length in *)
(* byte 3), it holds [preamble_length, starts, stops, 0] followed by the   *)
(* first preamble_length preamble bytes, and configuring again with the    *)
(* same arguments leaves it as it is.                                      *)
(***************************************************************************)
C12_Configured(c) ==
    [m_pBuf |-> <<c.preamble_length, c.starts, c.stops, 0>>
                \o [k \in 1..c.preamble_length |-> c.preamble[k]],
     m_nDataStart |-> 4 + c.preamble_length]

C12_DependsOnArgsOnly ==
    \A t \in Threads :
        (pc[t] = "done" /\ call[t].fn = "i2c_configure")
        => /\ Dict(t) = C12_Configured(call[t])
           /\ i2c_configure(Dict(t), call[t].preamble_length, call[t].starts,
                            call[t].stops, call[t].preamble) = Dict(t)

\* a configure that found a longer buffer with the read flag set and a payload
\* length in byte 3
C12_Witness ==
    /\ pc[1] = "done" /\ call[1].fn = "i2c_configure"
    /\ call[1].preamble_length = 1
    /\ Len(call[1].before.m_pBuf) > 5
    /\ call[1].before.m_pBuf[1] >= 128
    /\ call[1].before.m_pBuf[4] = 1
    /\ Dict(1).m_pBuf = <<1, 2, 4, 0, 161>>

(***************************************************************************)
(* The STARTS byte as the source documents it (lines 49-51): it "defines   *)
(* the preamble bytes after which a start bit is transmitted", STARTS=0x04 *)
(* meaning after the 3rd preamble byte.  Bit i set is a START after the    *)
(* preamble byte at position i (positions from 0), which is immediately    *)
(* before the byte at position i + 1.                                      *)
(***************************************************************************)
BitSet(mask, i) == (mask \div 2^i) % 2 = 1
MaskBits(mask) == {i \in 0..(MaxRegLen + 2) : BitSet(mask, i)}
StartsBeforePosition(mask) == {i + 1 : i \in MaskBits(mask)}

\* a running i2c_read_long with a register address of at least one byte
C13_Applies(t) ==
    /\ call[t].fn = "i2c_read_long" /\ InProgress(t)
    /\ ~ NoRegAddr(call[t].regAddr)
    /\ Len(call[t].regAddr.list) >= 1

\* positions from 0 in the preamble, which the buffer holds from byte 4 on
C13_PreambleByte(t, i) == Dict(t).m_pBuf[4 + i + 1]
C13_ReadAddressPosition(t) == Len(call[t].regAddr.list) + 1

(***************************************************************************)
(* C13 as claimed: reading the start mask as "bit i set means a START      *)
(* immediately before the preamble byte at position i", the mask that      *)
(* i2c_read_long configures marks exactly the position of the repeated     *)
(* device-address byte devAddr | 0x01.                                     *)
(***************************************************************************)
C13_MarksReadAddress ==
    \A t \in Threads :
        C13_Applies(t)
        => /\ MaskBits(Dict(t).m_pBuf[2]) = {C13_ReadAddressPosition(t)}
           /\ \A i \in MaskBits(Dict(t).m_pBuf[2]) :
                C13_PreambleByte(t, i) = BitOr(call[t].devAddr, 1)

(***************************************************************************)
(* C13 amended: reading the start mask as the source documents it (bit i   *)
(* set means a START after the preamble byte at position i), the mask that *)
(* i2c_read_long configures is 1 << len(regAddr) and puts its one START    *)
(* immediately before the repeated device-address byte devAddr | 0x01,     *)
(* the last byte of the preamble, for every register-address length >= 1.  *)
(***************************************************************************)
C13_StartBeforeReadAddress ==
    \A t \in Threads :
        C13_Applies(t)
        => /\ Dict(t).m_pBuf[2] = 2^Len(call[t].regAddr.list)
           /\ StartsBeforePosition(Dict(t).m_pBuf[2]) = {C13_ReadAddressPosition(t)}
           /\ \A i \in StartsBeforePosition(Dict(t).m_pBuf[2]) :
                /\ C13_PreambleByte(t, i) = BitOr(call[t].devAddr, 1)
                /\ 4 + i + 1 = Len(Dict(t).m_pBuf)

C13_Witness ==
    /\ C13_Applies(1)
    /\ pc[1] = "rx172"
    /\ call[1].devAddr = 160
    /\ Len(call[1].regAddr.list) = 2
    /\ Dict(1).m_pBuf[2] = 4
    /\ SubSeq(Dict(1).m_pBuf, 5, 8) = <<160, 16, 32, 161>>

(***************************************************************************)
(* C14: an i2c_transmit on a configured buffer issues, in this order, one  *)
(* MEMSTART pulse; for each of the data_length + m_nDataStart first bytes  *)
(* of the buffer, in buffer order, the byte written to IN under the mask   *)
(* 0xff << bit_index_low, a commit and one MEMWRITE pulse; one START       *)
(* pulse; and after that nothing but polls of DONE.  START is pulsed       *)
(* exactly once in a call that has ended, timed out or not, and no other   *)
(* endpoint is pulsed.                                                     *)
(***************************************************************************)
\* the operations up to and including START, from the buffer as appended to
C14_OpsToStart(t) ==
    LET buf == Dict(t).m_pBuf
        n == call[t].data_length + Dict(t).m_nDataStart
        b == endpoints["IN"].bit_index_low
    IN  <<ActivateTriggerIn("MEMSTART")>>
        \o [j \in 1..(3 * n) |->
              LET k == ((j - 1) \div 3) + 1 IN
              CASE j % 3 = 1 -> SetWireInValue("IN", buf[k] * 2^b, 255 * 2^b)
                [] j % 3 = 2 -> UpdateWireIns
                [] OTHER -> ActivateTriggerIn("MEMWRITE")]
        \o <<ActivateTriggerIn("START")>>

C14_IsPollOp(log, j, from) ==
    IF (j - from) % 2 = 1
    THEN log[j] = UpdateTriggerOuts
    ELSE log[j].op = "IsTriggered" /\ log[j].ep = "DONE"

C14_TransmitOrder ==
    \A t \in Threads :
        (IsTransmit(call[t]) /\ pc[t] \in {"tx94", "tx96", "tx111", "done"}
            /\ ~ Raised(t))
        => LET ops == C14_OpsToStart(t)
               log == hw[t]
           IN  /\ Len(log) <= Len(ops) => log = SubSeq(ops, 1, Len(log))
               /\ Len(log) > Len(ops) =>
                    /\ SubSeq(log, 1, Len(ops)) = ops
                    /\ \A j \in (Len(ops) + 1)..Len(log) : C14_IsPollOp(log, j, Len(ops))
               /\ pc[t] \in {"tx94", "tx96"} => Len(log) < Len(ops)
               /\ pc[t] = "tx111" => Len(log) >= Len(ops)
               /\ pc[t] = "done" =>
                    /\ Len(log) > Len(ops)
                    /\ Count(log, IsStart) = 1
                    /\ TimeoutReported(t) => Len(log) = Len(ops) + 2 * I2C_MAX_TIMEOUT_MS

\* a transmit that timed out after streaming seven bytes
C14_Witness ==
    /\ pc[1] = "done" /\ call[1].fn = "i2c_write_long" /\ TimeoutReported(1)
    /\ call[1].data_length = 2
    /\ Len(StreamedBytes(hw[1])) = 7
    /\ Count(hw[1], IsStart) = 1
    /\ hw[1][1] = ActivateTriggerIn("MEMSTART")
    /\ hw[1][23] = ActivateTriggerIn("START")

(***************************************************************************)
(* C15: an i2c_receive on a configured buffer streams exactly the first    *)
(* m_nDataStart = 4 + preamble length bytes of the buffer, each followed   *)
(* by a commit and one MEMWRITE pulse, and no byte of a payload behind     *)
(* them; the first streamed byte has the read flag 0x80 and the fourth is  *)
(* data_length; in pipe mode with reset_pipe a FIFO_RESET pulse comes      *)
(* first, before the MEMSTART pulse; the one START pulse follows the last  *)
(* MEMWRITE and the first poll of DONE follows START.                      *)
(***************************************************************************)
\* the receive has passed lines 149-150
C15_PastHeader(t) ==
    \/ pc[t] \in {"rx153", "rx156", "rx172", "rx184"}
    \/ pc[t] = "done" /\ Len(hw[t]) >= 2

C15_OpsToStart(t) ==
    LET buf == Dict(t).m_pBuf
        n == Dict(t).m_nDataStart
        b == endpoints["IN"].bit_index_low
    IN  (IF call[t].data_transfer = "pipe" /\ call[t].reset_pipe
         THEN <<ActivateTriggerIn("FIFO_RESET")>> ELSE <<>>)
        \o <<ActivateTriggerIn("MEMSTART")>>
        \o [j \in 1..(3 * n) |->
              LET k == ((j - 1) \div 3) + 1 IN
              CASE j % 3 = 1 -> SetWireInValue("IN", buf[k] * 2^b, 255 * 2^b)
                [] j % 3 = 2 -> UpdateWireIns
                [] OTHER -> ActivateTriggerIn("MEMWRITE")]
        \o <<ActivateTriggerIn("START")>>

C15_ReceiveOrder ==
    \A t \in Threads :
        (IsReceive(call[t]) /\ C15_PastHeader(t))
        => LET ops == C15_OpsToStart(t)
               log == hw[t]
               sent == StreamedBytes(log)
           IN  /\ Dict(t).m_nDataStart = 4 + (Dict(t).m_pBuf[1] % 128)
               /\ Dict(t).m_pBuf[1] >= 128
               /\ Dict(t).m_pBuf[4] = call[t].data_length
               /\ Len(log) <= Len(ops) => log = SubSeq(ops, 1, Len(log))
               /\ Len(log) > Len(ops) =>
                    /\ SubSeq(log, 1, Len(ops)) = ops
                    /\ log[Len(ops) + 1] = UpdateTriggerOuts
               /\ pc[t] \in {"rx153", "rx156"} => Len(log) < Len(ops)
               /\ pc[t] \in {"rx172", "rx184", "done"} =>
                    /\ Len(log) >= Len(ops)
                    /\ Count(log, IsStart) = 1
                    /\ sent = SubSeq(Dict(t).m_pBuf, 1, Dict(t).m_nDataStart)
                    /\ sent[1] >= 128 /\ sent[4] = call[t].data_length

\* a pipe receive with reset_pipe on a buffer that holds a payload byte behind
\* the preamble
C15_Witness ==
    /\ pc[1] = "done" /\ call[1].fn = "i2c_receive"
    /\ call[1].data_transfer = "pipe" /\ call[1].reset_pipe
    /\ call[1].data_length = 2
    /\ Dict(1).m_pBuf = <<129, 2, 4, 2, 161, 66>>
    /\ StreamedBytes(hw[1]) = <<129, 2, 4, 2, 161>>
    /\ hw[1][1] = ActivateTriggerIn("FIFO_RESET")
    /\ hw[1][2] = ActivateTriggerIn("MEMSTART")
    /\ hw[1][18] = ActivateTriggerIn("START")
    /\ Count(hw[1], IsPoll) >= 1

(***************************************************************************)
(* C16: a call on a controller on which i2c_configure has never been       *)
(* called (neither directly nor by i2c_write_long / i2c_read_long) never   *)
(* pulses START and streams no byte, and an i2c_transmit or i2c_receive on *)
(* it ends in an error, whatever calls were made before on this or on any  *)
(* other controller of the same create_chips call.                         *)
(***************************************************************************)
C16_Unconfigured(t) == call[t].self \in Chips \ configured

C16_UnconfiguredNeverStarts ==
    \A t \in Threads :
        C16_Unconfigured(t)
        => /\ Count(hw[t], IsStart) = 0
           /\ StreamedBytes(hw[t]) = <<>>
           /\ (pc[t] = "done" /\ call[t].fn \in {"i2c_transmit", "i2c_receive"})
                => Raised(t)

(***************************************************************************)
(* C17 as claimed: every i2c_transmit(data, n) that gets to stream, after  *)
(* whatever calls came before (an earlier transmit or receive with no      *)
(* i2c_configure in between included), streams every byte of the command   *)
(* buffer as it stands after the append: as many bytes as the buffer has,  *)
(* ending with data[0..n-1] of this call.                                  *)
(***************************************************************************)
C17_Streamed(t) ==
    IsTransmit(call[t]) /\ pc[t] \in {"tx111", "done"} /\ ~ Raised(t)

C17_StreamsWholeBuffer(t) ==
    LET sent == StreamedBytes(hw[t])
        n == call[t].data_length
    IN  /\ Len(sent) = Len(Dict(t).m_pBuf)
        /\ sent = Dict(t).m_pBuf
        /\ SubSeq(sent, Len(sent) - n + 1, Len(sent)) = SubSeq(call[t].data, 1, n)

C17_TransmitStreamsAll ==
    \A t \in Threads : C17_Streamed(t) => C17_StreamsWholeBuffer(t)

(***************************************************************************)
(* C17 amended: an i2c_transmit(data, n) that found the command buffer     *)
(* with exactly m_nDataStart bytes (no transmit has appended to it since   *)
(* the last i2c_configure; an i2c_receive in between does not matter)      *)
(* streams every byte of the buffer as it stands after the append, ending  *)
(* with data[0..n-1]; every i2c_transmit streams the first                 *)
(* n + m_nDataStart bytes of the buffer.                                   *)
(***************************************************************************)
C17_FoundNoPayload(t) ==
    Len(Dict(t).m_pBuf) = Dict(t).m_nDataStart + call[t].data_length

C17_TransmitStreamsAllAfterConfigure ==
    \A t \in Threads :
        C17_Streamed(t)
        => /\ C17_FoundNoPayload(t) => C17_StreamsWholeBuffer(t)
           /\ StreamedBytes(hw[t]) =
                SubSeq(Dict(t).m_pBuf, 1, Dict(t).m_nDataStart + call[t].data_length)

\* a transmit of two bytes on the buffer an i2c_receive left, with no
\* i2c_configure in between
C17_Witness ==
    /\ pc[1] = "done" /\ call[1].fn = "i2c_transmit" /\ call[1].data_length = 2
    /\ Dict(1).m_pBuf = <<128, 2, 4, 2, 66, 67>>
    /\ StreamedBytes(hw[1]) = <<128, 2, 4, 2, 66, 67>>

(***************************************************************************)
(* C18: in every i2c_write_long and i2c_read_long whose preamble has at    *)
(* most 7 bytes, whatever calls came before, the first byte streamed has   *)
(* the preamble length of this call in bits 0-6 and has bit 7 (0x80) set   *)
(* exactly if the call is i2c_read_long; the command buffer of an          *)
(* i2c_write_long never has the read flag, also after an i2c_read_long.    *)
(***************************************************************************)
C18_Applies(t) ==
    /\ call[t].fn \in {"i2c_write_long", "i2c_read_long"}
    /\ Running(t)
    /\ PreambleLengthOf(call[t]) <= 7

C18_FirstByte ==
    \A t \in Threads :
        C18_Applies(t)
        => LET sent == StreamedBytes(hw[t]) IN
           /\ Len(sent) >= 1 =>
                /\ sent[1] % 128 = PreambleLengthOf(call[t])
                /\ (sent[1] \div 128) % 2 = 1 <=> call[t].fn = "i2c_read_long"
           /\ call[t].fn = "i2c_write_long" =>
                Dict(t).m_pBuf[1] = PreambleLengthOf(call[t])
           /\ pc[t] \in {"tx111", "rx172"} => Len(sent) >= 1

\* a read of a register with a two-byte address has streamed its buffer
C18_Witness ==
    /\ C18_Applies(1) /\ call[1].fn = "i2c_read_long" /\ pc[1] = "rx172"
    /\ Len(call[1].regAddr.list) = 2 /\ ~ NoRegAddr(call[1].regAddr)
    /\ StreamedBytes(hw[1])[1] = 128 + 4

(***************************************************************************)
(* C19: two transactions on one controller, issued from two threads with   *)
(* no lock, can corrupt each other, while a transaction during which no    *)
(* call of another thread is in progress streams exactly its own bytes:    *)
(* control bytes, preamble and, for a write, payload, as its arguments     *)
(* give them.  The formula is the serialized half; the state C19_Witness   *)
(* is the interleaving of the other half, a write that has ended with True *)
(* after streaming bytes of the other thread's transaction.                *)
(***************************************************************************)
C19_OwnBytes(c) ==
    IF c.fn = "i2c_write_long" THEN C3_ExpectedBuffer(c)
    ELSE LET pre == IF C5_Applies(c) THEN <<SetLsb(c.devAddr)>>
                    ELSE C4_ExpectedPreamble(c)
             starts == IF C5_Applies(c) THEN 0 ELSE Pow2(Len(c.regAddr.list))
         IN  <<128 + Len(pre), starts, 0, c.data_length>> \o pre

C19_HasStreamed(t) ==
    /\ call[t].fn \in {"i2c_write_long", "i2c_read_long"}
    /\ pc[t] \in {"tx111", "rx172", "done"}

C19_SerializedStreamsOwnBytes ==
    \A t \in Threads :
        (C19_HasStreamed(t) /\ ~ call[t].overlapped)
        => /\ ~ Raised(t)
           /\ StreamedBytes(hw[t]) = C19_OwnBytes(call[t])
           /\ Count(hw[t], IsStart) = 1

C19_Witness ==
    /\ pc[1] = "done" /\ call[1].fn = "i2c_write_long" /\ ret[1].kind = "True"
    /\ call[1].devAddr = 160
    /\ call[1].overlapped
    /\ call[2].fn = "i2c_write_long" /\ call[2].devAddr = 83
    /\ Len(StreamedBytes(hw[1])) = Len(C19_OwnBytes(call[1]))
    /\ StreamedBytes(hw[1]) # C19_OwnBytes(call[1])
    /\ StreamedBytes(hw[1])[5] = 82

(***************************************************************************)
(* C20: i2c_configure performs no operation on the transport and changes   *)
(* nothing but the command buffer and the data-start offset of its         *)
(* controller; reset_device pulses the RESET endpoint exactly once,        *)
(* performs no other operation on the transport and leaves the command     *)
(* buffer and the data-start offset as they were.                          *)
(***************************************************************************)
C20_Calls(t, fn) == pc[t] = "idle" /\ call'[t].fn = fn

C20_ConfigureAndResetFrame ==
    [][\A t \in Threads :
        /\ C20_Calls(t, "i2c_configure") =>
            /\ pc'[t] = "done"
            /\ hw'[t] = <<>>
            /\ \A o \in DOMAIN heap \ {i2c[call'[t].self]} : heap'[o] = heap[o]
            /\ DOMAIN heap' = DOMAIN heap
            /\ DOMAIN heap'[i2c[call'[t].self]] = {"m_pBuf", "m_nDataStart"}
            /\ i2c' = i2c /\ endpoints' = endpoints
        /\ C20_Calls(t, "reset_device") =>
            /\ pc'[t] = "done"
            /\ Len(hw'[t]) = 1
            /\ hw'[t][1].op = "ActivateTriggerIn" /\ hw'[t][1].ep = "RESET"
            /\ hw'[t][1].val = endpoints["RESET"].bit_index_low
            /\ heap' = heap
            /\ i2c' = i2c /\ endpoints' = endpoints]_vars

\* reset_device has returned on a controller whose buffer holds a transaction
C20_Witness ==
    /\ pc[1] = "done" /\ call[1].fn = "reset_device"
    /\ hw[1] = <<ActivateTriggerIn("RESET")>>
    /\ Dict(1) = [m_pBuf |-> <<1, 2, 4, 1, 161, 66>>, m_nDataStart |-> 5]

====
